---- MODULE Spec2Model ----
(***************************************************************************)
(* Course-schedule optimizer: the data loader (services/data_loader.py),   *)
(* the two MILP model builders (services/optimizer.py OptimizerService and *)
(* backend/optimizerSCIP.py resolver_grade) and their result decoders.     *)
(*                                                                         *)
(* A solver run is modelled by its contract: it returns any 0/1 assignment *)
(* of the alocacao variables that satisfies every constraint the builder   *)
(* added (FEASIBLE), one of minimum objective (OPTIMAL), INFEASIBLE when   *)
(* no assignment satisfies them, or NOT_SOLVED when the time limit ends    *)
(* the search without a solution.                                          *)
(***************************************************************************)
EXTENDS Integers, Sequences, FiniteSets, TLC

VARIABLES
    builder,            \* "service" (app.py path) or "scip" (backend/main.py path)
    disciplinas_data,   \* disciplinas.json: course id -> record
    ofertas_data,       \* ofertas.json: sequence of offering records
    concluidas,         \* completed course ids of the request
    semestre_inicio,    \* starting term of the request
    creditos_minimos,   \* category -> minimum credits
    creditos_max,       \* per-term credit cap
    dados,              \* DadosDisciplinas produced by the loader
    resultado,          \* result of the optimizer
    solver,             \* pywraplp.Solver.CreateSolver('SCIP'): "none" before the
                        \* call, then "SCIP" or "unavailable" (it returned None)
    solve_status,       \* what solver.Solve() returned, "none" before it ran
    resposta,           \* what the caller is shown: page (app.py) or HTTP response
    session_state,      \* st.session_state of the Streamlit session: key -> value
    pc                  \* "init" -> "loaded" -> "done"

vars == <<builder, disciplinas_data, ofertas_data, concluidas, semestre_inicio,
          creditos_minimos, creditos_max, dados, resultado, solver, solve_status, resposta,
          session_state, pc>>

----------------------------------------------------------------------------
(* Bounds of the model *)

\* planning horizon (num_semestres_total / NUM_SEMESTRES argument)
MaxSem == 3

\* most offering records in ofertas.json
MaxOfertas == 3

----------------------------------------------------------------------------
(* Generic helpers *)

RECURSIVE SumOver(_, _)
\* sum of f[x] for x in the finite set S
SumOver(S, f) ==
    IF S = {} THEN 0
    ELSE LET x == CHOOSE y \in S : TRUE IN f[x] + SumOver(S \ {x}, f)

Max2(a, b) == IF a >= b THEN a ELSE b

MaxOf(S) == CHOOSE m \in S : \A y \in S : y <= m

MinOf(S) == CHOOSE m \in S : \A y \in S : m <= y

SeqToSet(s) == {s[i] : i \in DOMAIN s}

----------------------------------------------------------------------------
(* Text of the input records *)

\* category labels ("tipo") found in the course records
TipoPeriodo == "1o Periodo"
TipoRestrita == "Escolha Restrita"
TipoCondicionada == "Escolha Condicionada"
TipoLivre == "Livre Escolha"
TipoEstagio == "Estagio"

\* needle in tipo.lower(): substring test on the lower-cased label
InLower(needle, tipo) ==
    CASE tipo = TipoPeriodo -> needle \in {"periodo"}
      [] tipo = TipoRestrita -> needle \in {"restrita", "escolha"}
      [] tipo = TipoCondicionada -> needle \in {"condicionada", "escolha"}
      [] tipo = TipoLivre -> needle \in {"livre", "escolha"}
      [] OTHER -> FALSE

\* needle in tipo: substring test on the label as written
Contem(needle, tipo) ==
    CASE tipo = TipoRestrita -> needle \in {"Restrita", "Escolha"}
      [] tipo = TipoCondicionada -> needle \in {"Condicionada", "Escolha"}
      [] tipo = TipoLivre -> needle \in {"Livre", "Escolha"}
      [] tipo = TipoPeriodo -> needle \in {"Periodo"}
      [] tipo = TipoEstagio -> needle \in {"Estagio"}
      [] OTHER -> FALSE

\* d_id.startswith("ARTIFICIAL")
StartsWithArtificial(d_id) == d_id \in {"ARTIFICIAL1"}

\* {int(p.strip()) for p in periodo.split(',') if p.strip()}
ParsePeriodo(periodo) ==
    CASE periodo = "1" -> {1}
      [] periodo = "2" -> {2}
      [] periodo = "1,2" -> {1, 2}
      [] OTHER -> {}

\* the terms a parity spec of an offering record allows ("" = absent: both)
PeriodoAllows(periodo, s) ==
    IF periodo = "" THEN TRUE
    ELSE IF s % 2 = 1 THEN 1 \in ParsePeriodo(periodo)
    ELSE 2 \in ParsePeriodo(periodo)

----------------------------------------------------------------------------
(* DataLoader *)

\* DataLoader._filtrar_disciplinas_concluidas
FiltrarDisciplinasConcluidas(data, concl) ==
    [d \in {c \in DOMAIN data : c \notin concl} |->
        [data[d] EXCEPT !.prerequisitos = @ \ concl]]

\* DataLoader._categorizar_disciplinas
Categorizar(disc) ==
    LET obr == {d \in DOMAIN disc : InLower("periodo", disc[d].tipo)}
        res == {d \in DOMAIN disc \ obr : InLower("restrita", disc[d].tipo)}
        con == {d \in DOMAIN disc \ (obr \cup res) :
                    InLower("condicionada", disc[d].tipo)}
        liv == {d \in DOMAIN disc \ (obr \cup res \cup con) :
                    InLower("livre", disc[d].tipo) \/ StartsWithArtificial(d)}
    IN [obrigatorias |-> obr, restritas |-> res, condicionadas |-> con, livres |-> liv]

\* the offering records the loop of _processar_ofertas does not skip
OfertasUsadas(ofertas, comOferta) ==
    SelectSeq(ofertas, LAMBDA o : o.disciplina_id \in comOferta)

\* DataLoader._processar_ofertas
ProcessarOfertas(ofertas, disc) ==
    LET ofertadas == {ofertas[i].disciplina_id : i \in DOMAIN ofertas}
        comOferta == {d \in DOMAIN disc : d \in ofertadas}
        usadas == OfertasUsadas(ofertas, comOferta)
        turmasDe(d) == LET own == SelectSeq(usadas, LAMBDA o : o.disciplina_id = d)
                       IN [i \in DOMAIN own |-> own[i].turma_id]
        tids == {usadas[i].turma_id : i \in DOMAIN usadas}
        \* horarios_por_turma[t_id] = ...: the last record of a turma id wins
        lastOf(t) == MaxOf({i \in DOMAIN usadas : usadas[i].turma_id = t})
        comPeriodo == {usadas[i].disciplina_id :
                          i \in {j \in DOMAIN usadas : usadas[j].periodo # ""}}
    IN [disciplinas |-> [d \in comOferta |-> disc[d]],
        turmas_por_disciplina |-> [d \in comOferta |-> turmasDe(d)],
        horarios_por_turma |-> [t \in tids |-> usadas[lastOf(t)].horario],
        periodos_validos |->
            [d \in comPeriodo |->
                UNION {ParsePeriodo(usadas[i].periodo) :
                          i \in {j \in DOMAIN usadas : usadas[j].disciplina_id = d}}]]

\* a category list keeps only the courses that have an offering
FiltrarComOferta(ids, comOferta) == {d \in ids : d \in comOferta}

\* DataLoader.carregar_dados
CarregarDados(data, ofertas, concl) ==
    LET filtradas == FiltrarDisciplinasConcluidas(data, concl)
        categorias == Categorizar(filtradas)
        proc == ProcessarOfertas(ofertas, filtradas)
        comOferta == DOMAIN proc.disciplinas
    IN [disciplinas |-> proc.disciplinas,
        turmas_por_disciplina |-> proc.turmas_por_disciplina,
        horarios_por_turma |-> proc.horarios_por_turma,
        periodos_validos_por_disciplina |-> proc.periodos_validos,
        obrigatorias_ids |-> FiltrarComOferta(categorias.obrigatorias, comOferta),
        restritas_ids |-> FiltrarComOferta(categorias.restritas, comOferta),
        condicionadas_ids |-> FiltrarComOferta(categorias.condicionadas, comOferta),
        livres_ids |-> FiltrarComOferta(categorias.livres, comOferta)]

----------------------------------------------------------------------------
(* The 0/1 solution of a model: the set x of alocacao keys <<d, s, t>>     *)
(* whose variable is 1.  keys is the set of all alocacao keys.             *)

NumSemestres == MaxSem

KeysOf(keys, d) == {k \in keys : k[1] = d}

KeysAt(keys, d, s) == {k \in keys : k[1] = d /\ k[2] = s}

\* value of solver.Sum(vars of d): how many of d's variables are 1
Cursada(x, d) == Cardinality(KeysOf(x, d))

\* value of solver.Sum(s * var for the variables of d)
SomaSemestres(x, d) ==
    LET own == KeysOf(x, d) IN SumOver(own, [k \in own |-> k[2]])

\* turmas_por_disciplina.get(d_id, [])
TurmasDe(dd, d) ==
    IF d \in DOMAIN dd.turmas_por_disciplina
    THEN dd.turmas_por_disciplina[d] ELSE <<>>

\* horarios_por_turma.get(t_id, [])
HorariosDe(dd, t) ==
    IF t \in DOMAIN dd.horarios_por_turma THEN dd.horarios_por_turma[t] ELSE {}

\* int(disciplinas[d_id]['creditos'])
Creditos(dd, d) == dd.disciplinas[d].creditos

----------------------------------------------------------------------------
(* OptimizerService (services/optimizer.py) *)

\* _preparar_disciplinas_a_cursar: "obrigatorias"
ObrigatoriasACursar(dd, concl) == {d \in dd.obrigatorias_ids : d \notin concl}

\* DadosDisciplinas.optativas_ids
OptativasIds(dd) == dd.restritas_ids \cup dd.condicionadas_ids \cup dd.livres_ids

\* _preparar_disciplinas_a_cursar: "optativas"
OptativasACursar(dd, concl) == {d \in OptativasIds(dd) : d \notin concl}

\* _preparar_disciplinas_a_cursar: "todas"
TodasACursar(dd, concl) == ObrigatoriasACursar(dd, concl) \cup OptativasACursar(dd, concl)

\* the category _calcular_creditos_minimos_restantes books a completed course under
CategoriaFeita(info, d) ==
    IF InLower("restrita", info[d].tipo) THEN "restrita"
    ELSE IF InLower("condicionada", info[d].tipo) THEN "condicionada"
    ELSE IF InLower("livre", info[d].tipo) \/ StartsWithArtificial(d) THEN "livre"
    ELSE "nenhuma"

\* creditos_feitos[cat] of _calcular_creditos_minimos_restantes
CreditosFeitos(info, concl, cat) ==
    LET done == {d \in concl \cap DOMAIN info : CategoriaFeita(info, d) = cat}
    IN SumOver(done, [d \in done |-> info[d].creditos])

\* _calcular_creditos_minimos_restantes
CreditosMinimosRestantes(info, concl, minimos) ==
    [cat \in {"restrita", "condicionada", "livre"} |->
        Max2(0, minimos[cat] - CreditosFeitos(info, concl, cat))]

\* _criar_variaveis_decisao: the keys of alocacao
AlocacaoService(dd, concl, ini) ==
    UNION {{<<d, s, t>> : s \in ini..NumSemestres, t \in SeqToSet(TurmasDe(dd, d))} :
              d \in TodasACursar(dd, concl)}

\* dummy_value of _criar_variaveis_decisao
DummyService == NumSemestres + 2

\* value the linking constraint gives semestre_da_disciplina[d]
SemestreService(keys, x, d) ==
    IF KeysOf(keys, d) = {} THEN DummyService
    ELSE SomaSemestres(x, d) + (1 - Cursada(x, d)) * DummyService

\* semestre_da_disciplina[d] = IntVar(semestre_inicio, num_semestres_total + 1)
SemestreVarService(ini, v) == ini <= v /\ v <= NumSemestres + 1

\* the linking constraints of _criar_variaveis_decisao with the variable bounds
LigacaoService(dd, concl, ini, keys, x) ==
    \A d \in TodasACursar(dd, concl) : SemestreVarService(ini, SemestreService(keys, x, d))

\* _adicionar_restricao_obrigatorias
RestricaoObrigatoriasService(dd, concl, keys, x) ==
    \A d \in ObrigatoriasACursar(dd, concl) :
        KeysOf(keys, d) # {} => Cursada(x, d) = 1

\* _adicionar_restricao_optativas
RestricaoOptativasService(dd, concl, keys, x) ==
    \A d \in OptativasACursar(dd, concl) :
        KeysOf(keys, d) # {} => Cursada(x, d) <= 1

\* one category block of _adicionar_restricao_creditos_minimos
CreditosMinimosCategoria(dd, ids, cursadaVars, restante, x) ==
    LET termos == {d \in ids : d \in DOMAIN dd.disciplinas /\ d \in cursadaVars}
    IN (ids # {} /\ termos # {}) =>
          SumOver(termos, [d \in termos |-> Creditos(dd, d) * Cursada(x, d)]) >= restante

\* _adicionar_restricao_creditos_minimos
RestricaoCreditosMinimosService(dd, concl, restantes, x) ==
    /\ CreditosMinimosCategoria(dd, dd.restritas_ids, TodasACursar(dd, concl),
                                restantes["restrita"], x)
    /\ CreditosMinimosCategoria(dd, dd.condicionadas_ids, TodasACursar(dd, concl),
                                restantes["condicionada"], x)
    /\ CreditosMinimosCategoria(dd, dd.livres_ids, TodasACursar(dd, concl),
                                restantes["livre"], x)

\* m_prereq of _adicionar_restricao_prerequisitos
MPrereqService == NumSemestres + 2

\* the pairs (d, prereq) _adicionar_restricao_prerequisitos constrains
ParesPrereqService(dd, concl) ==
    {p \in TodasACursar(dd, concl) \X TodasACursar(dd, concl) :
        /\ p[1] \in DOMAIN dd.disciplinas
        /\ p[2] \in dd.disciplinas[p[1]].prerequisitos
        /\ p[2] \notin concl}

\* _adicionar_restricao_prerequisitos
RestricaoPrerequisitosService(dd, concl, keys, x) ==
    \A p \in ParesPrereqService(dd, concl) :
        /\ Cursada(x, p[2]) >= Cursada(x, p[1])
        /\ SemestreService(keys, x, p[1]) - SemestreService(keys, x, p[2])
              >= 1 - MPrereqService * (1 - Cursada(x, p[1]))

\* number of variables of term s that are 1 and whose turma lists token h
OcupacaoHorario(dd, x, s, h) ==
    Cardinality({k \in x : k[2] = s /\ h \in HorariosDe(dd, k[3])})

\* the tokens of the turmas that have a variable in term s
HorariosDoSemestre(dd, keys, s) ==
    UNION {HorariosDe(dd, k[3]) : k \in {j \in keys : j[2] = s}}

\* _adicionar_restricao_conflitos_horario
RestricaoConflitosService(dd, ini, keys, x) ==
    \A s \in ini..NumSemestres : \A h \in HorariosDoSemestre(dd, keys, s) :
        OcupacaoHorario(dd, x, s, h) <= 1

\* credits the solution places in term s
CreditosNoSemestre(dd, x, s) ==
    LET ks == {k \in x : k[2] = s /\ k[1] \in DOMAIN dd.disciplinas}
    IN SumOver(ks, [k \in ks |-> Creditos(dd, k[1])])

\* _adicionar_restricao_limite_creditos
RestricaoLimiteCreditosService(dd, ini, x, cap) ==
    \A s \in ini..NumSemestres : CreditosNoSemestre(dd, x, s) <= cap

\* m_obj of _definir_funcao_objetivo
MObjService == NumSemestres + 2

\* least value semestre_maximo can take under the constraints of
\* _definir_funcao_objetivo (its lower bound is semestre_inicio)
ObjetivoMinimoService(dd, concl, ini, keys, x) ==
    LET T == TodasACursar(dd, concl)
    IN MaxOf({ini} \cup
             {SemestreService(keys, x, d) - MObjService * (1 - Cursada(x, d)) : d \in T})

\* every constraint of the model OptimizerService.resolver builds holds for x
FeasibleService(dd, info, concl, ini, minimos, cap, keys, x) ==
    /\ LigacaoService(dd, concl, ini, keys, x)
    /\ RestricaoObrigatoriasService(dd, concl, keys, x)
    /\ RestricaoOptativasService(dd, concl, keys, x)
    /\ RestricaoCreditosMinimosService(dd, concl,
            CreditosMinimosRestantes(info, concl, minimos), x)
    /\ RestricaoPrerequisitosService(dd, concl, keys, x)
    /\ RestricaoConflitosService(dd, ini, keys, x)
    /\ RestricaoLimiteCreditosService(dd, ini, x, cap)
    /\ ObjetivoMinimoService(dd, concl, ini, keys, x) <= NumSemestres

----------------------------------------------------------------------------
(* resolver_grade (backend/optimizerSCIP.py) *)

\* variables created for the completed courses too
ACursarScipSemFiltro(dd, cursadas) == DOMAIN dd.disciplinas

\* the courses resolver_grade creates variables for
ACursarScip(dd, cursadas) == {d \in DOMAIN dd.disciplinas : d \notin cursadas}

\* periodos_validos_por_disciplina.get(d_id, {1, 2})
PeriodosValidos(dd, d) ==
    IF d \in DOMAIN dd.periodos_validos_por_disciplina
    THEN dd.periodos_validos_por_disciplina[d] ELSE {1, 2}

\* the parity test of the variable-creation loop
OfertaNoSemestre(dd, d, s) ==
    \/ s % 2 # 0 /\ 1 \in PeriodosValidos(dd, d)
    \/ s % 2 = 0 /\ 2 \in PeriodosValidos(dd, d)

\* the keys of alocacao
AlocacaoScip(dd, cursadas) ==
    UNION {{<<d, s, t>> : s \in {r \in 1..NumSemestres : OfertaNoSemestre(dd, d, r)},
                          t \in SeqToSet(TurmasDe(dd, d))} :
              d \in ACursarScip(dd, cursadas)}

\* cursada_vars[d]: the constant 1 for a completed course, else the sum
CursadaScip(cursadas, x, d) == IF d \in cursadas THEN 1 ELSE Cursada(x, d)

\* the dummy term of OptimizerService used in R2
DummyScipAlemDoLimite == NumSemestres + 2

\* the dummy term of the linking constraint R2
DummyScip == NumSemestres + 1

\* semestre_da_disciplina[d]: the constant 0 for a completed course
SemestreScip(cursadas, x, d) ==
    IF d \in cursadas THEN 0
    ELSE SomaSemestres(x, d) + (1 - Cursada(x, d)) * DummyScip

\* semestre_da_disciplina[d] declared without bounds
SemestreVarScipSemLimite(v) == v \in Int

\* semestre_da_disciplina[d] = IntVar(1, NUM_SEMESTRES + 1)
SemestreVarScip(v) == 1 <= v /\ v <= NumSemestres + 1

\* R2 with the variable bounds
LigacaoScip(dd, cursadas, x) ==
    \A d \in ACursarScip(dd, cursadas) : SemestreVarScip(SemestreScip(cursadas, x, d))

\* R1.1 written as the elective cap
RestricaoObrigatoriasScipNoMaximo(dd, cursadas, x) ==
    \A d \in dd.obrigatorias_ids : d \notin cursadas => Cursada(x, d) <= 1

\* R1.1
RestricaoObrigatoriasScip(dd, cursadas, x) ==
    \A d \in dd.obrigatorias_ids : d \notin cursadas => Cursada(x, d) = 1

\* R1.2
RestricaoOptativasScip(dd, cursadas, x) ==
    \A d \in OptativasIds(dd) : d \notin cursadas => Cursada(x, d) <= 1

\* one line of R3
CreditosMinimosCategoriaScip(dd, ids, cursadas, minimo, x) ==
    ids # {} =>
        SumOver(ids, [d \in ids |-> Creditos(dd, d) * CursadaScip(cursadas, x, d)])
            >= minimo

\* R3
RestricaoCreditosMinimosScip(dd, cursadas, minimos, x) ==
    /\ CreditosMinimosCategoriaScip(dd, dd.restritas_ids, cursadas, minimos["restrita"], x)
    /\ CreditosMinimosCategoriaScip(dd, dd.condicionadas_ids, cursadas,
                                    minimos["condicionada"], x)
    /\ CreditosMinimosCategoriaScip(dd, dd.livres_ids, cursadas, minimos["livre"], x)

\* M_prereq
MPrereqScip == NumSemestres + 1

\* the pairs (d, prereq) R4 constrains
ParesPrereqScip(dd, cursadas) ==
    {p \in ACursarScip(dd, cursadas) \X DOMAIN dd.disciplinas :
        p[2] \in dd.disciplinas[p[1]].prerequisitos}

\* R4 with the ordering not strict
RestricaoPrerequisitosScipMesmoSemestre(dd, cursadas, x) ==
    \A p \in ParesPrereqScip(dd, cursadas) :
        /\ p[2] \notin cursadas => Cursada(x, p[2]) >= Cursada(x, p[1])
        /\ SemestreScip(cursadas, x, p[1]) - SemestreScip(cursadas, x, p[2])
              >= 0 - MPrereqScip * (1 - Cursada(x, p[1]))

\* R4
RestricaoPrerequisitosScip(dd, cursadas, x) ==
    \A p \in ParesPrereqScip(dd, cursadas) :
        /\ p[2] \notin cursadas => Cursada(x, p[2]) >= Cursada(x, p[1])
        /\ SemestreScip(cursadas, x, p[1]) - SemestreScip(cursadas, x, p[2])
              >= 1 - MPrereqScip * (1 - Cursada(x, p[1]))

\* R5
RestricaoConflitosScip(dd, keys, x) ==
    \A s \in 1..NumSemestres : \A h \in HorariosDoSemestre(dd, keys, s) :
        OcupacaoHorario(dd, x, s, h) <= 1

\* R6 applied to each assigned course instead of the sum of the term
RestricaoLimiteCreditosScipPorDisciplina(dd, cursadas, x, cap) ==
    \A k \in x : k[1] \notin cursadas => Creditos(dd, k[1]) <= cap

\* R6
RestricaoLimiteCreditosScip(dd, cursadas, x, cap) ==
    \A s \in 1..NumSemestres :
        LET ks == {k \in x : k[2] = s /\ k[1] \notin cursadas}
        IN SumOver(ks, [k \in ks |-> Creditos(dd, k[1])]) <= cap

\* id_estagio
IdEstagio == "EEWU00"

\* the count taking the courses of term s itself as concluded
ConcluidasAteSemestre(dd, cursadas, keys, x, s) ==
    LET outras == {d \in DOMAIN dd.disciplinas : d \notin cursadas /\ d # IdEstagio}
        termos == UNION {{<<d, r, i>> : r \in 1..s, i \in DOMAIN TurmasDe(dd, d)} :
                            d \in outras}
        var(e) == <<e[1], e[2], TurmasDe(dd, e[1])[e[3]]>>
    IN Cardinality({e \in termos : var(e) \in keys /\ var(e) \in x})

\* value of solver.Sum(vars_concluidas_antes_s): one term per entry of the
\* turma list of each other course and per earlier term that has a variable
ConcluidasAntes(dd, cursadas, keys, x, s) ==
    LET outras == {d \in DOMAIN dd.disciplinas : d \notin cursadas /\ d # IdEstagio}
        termos == UNION {{<<d, r, i>> : r \in 1..(s - 1), i \in DOMAIN TurmasDe(dd, d)} :
                            d \in outras}
        var(e) == <<e[1], e[2], TurmasDe(dd, e[1])[e[3]]>>
    IN Cardinality({e \in termos : var(e) \in keys /\ var(e) \in x})

\* R7: total_concluidas_antes_s >= metade_total - M_estagio * (1 - is_estagio_in_s),
\* both sides doubled (metade_total = total_disciplinas / 2.0)
RestricaoEstagioScip(dd, cursadas, keys, x) ==
    (IdEstagio \in DOMAIN dd.disciplinas /\ IdEstagio \notin cursadas) =>
        LET total == Cardinality(DOMAIN dd.disciplinas)
            M_estagio == total + 1
        IN \A s \in 1..NumSemestres :
              KeysAt(keys, IdEstagio, s) # {} =>
                  2 * (Cardinality(cursadas) + ConcluidasAntes(dd, cursadas, keys, x, s))
                     >= total - 2 * M_estagio
                                  * (1 - Cardinality(KeysAt(x, IdEstagio, s)))

\* M_obj
MObjScip == NumSemestres + 1

\* the objective bound with the term of a never-taken course left in force
ObjetivoMinimoScipSemDesativar(dd, cursadas, x) ==
    MaxOf({1} \cup
          {SemestreScip(cursadas, x, d) - (1 - Cursada(x, d)) :
              d \in ACursarScip(dd, cursadas)})

\* least value semestre_maximo (lower bound 1) can take
ObjetivoMinimoScip(dd, cursadas, x) ==
    MaxOf({1} \cup
          {SemestreScip(cursadas, x, d) - MObjScip * (1 - Cursada(x, d)) :
              d \in ACursarScip(dd, cursadas)})

\* the model of resolver_grade without R1.2 and without the bounds of the
\* semestre_da_disciplina variables
FeasibleScipSemLimiteDeVezes(dd, cursadas, minimos, cap, keys, x) ==
    /\ RestricaoObrigatoriasScip(dd, cursadas, x)
    /\ RestricaoCreditosMinimosScip(dd, cursadas, minimos, x)
    /\ RestricaoPrerequisitosScip(dd, cursadas, x)
    /\ RestricaoConflitosScip(dd, keys, x)
    /\ RestricaoLimiteCreditosScip(dd, cursadas, x, cap)
    /\ RestricaoEstagioScip(dd, cursadas, keys, x)
    /\ ObjetivoMinimoScip(dd, cursadas, x) <= NumSemestres

\* every constraint of the model resolver_grade builds holds for x
FeasibleScip(dd, cursadas, minimos, cap, keys, x) ==
    /\ LigacaoScip(dd, cursadas, x)
    /\ RestricaoObrigatoriasScip(dd, cursadas, x)
    /\ RestricaoOptativasScip(dd, cursadas, x)
    /\ RestricaoCreditosMinimosScip(dd, cursadas, minimos, x)
    /\ RestricaoPrerequisitosScip(dd, cursadas, x)
    /\ RestricaoConflitosScip(dd, keys, x)
    /\ RestricaoLimiteCreditosScip(dd, cursadas, x, cap)
    /\ RestricaoEstagioScip(dd, cursadas, keys, x)
    /\ ObjetivoMinimoScip(dd, cursadas, x) <= NumSemestres

----------------------------------------------------------------------------
(* The solver and the decoders *)

NoResult == [status |-> "none", grade |-> <<>>, creditos_por_semestre |-> <<>>,
             objetivo |-> <<>>, creditos_por_tipo |-> <<>>]

\* solver.Solve() with a time limit: what it may return for the model whose
\* feasible 0/1 assignments are F, objMin[x] being the least objective of x
SolverOutcomes(F, objMin) ==
    {[status |-> "NOT_SOLVED", x |-> {}, objetivo |-> <<>>]}
    \cup
    (IF F = {}
     THEN {[status |-> "INFEASIBLE", x |-> {}, objetivo |-> <<>>]}
     ELSE LET best == MinOf({objMin[x] : x \in F})
          IN {[status |-> "OPTIMAL", x |-> x, objetivo |-> <<best>>] :
                 x \in {y \in F : objMin[y] = best}}
             \cup
             UNION {{[status |-> "FEASIBLE", x |-> x, objetivo |-> <<v>>] :
                        v \in objMin[x]..NumSemestres} : x \in F})

Sucesso(status) == status \in {"OPTIMAL", "FEASIBLE"}

\* the entries the decoder appends to grade[s]
GradeDoSemestre(x, s) == {<<k[1], k[3]>> : k \in {j \in x : j[2] = s}}

\* _processar_resultados numbering the terms from the starting term as 1
ProcessarResultadosServiceRelativo(dd, ini, out) ==
    IF Sucesso(out.status)
    THEN LET known == {<<k[1], k[2] - ini + 1, k[3]>> : k \in out.x}
             usados == {s \in 1..NumSemestres : GradeDoSemestre(known, s) # {}}
         IN [status |-> out.status,
             grade |-> [s \in usados |-> GradeDoSemestre(known, s)],
             creditos_por_semestre |->
                 [s \in 1..NumSemestres |-> CreditosNoSemestre(dd, known, s)],
             objetivo |-> out.objetivo,
             creditos_por_tipo |-> <<>>]
    ELSE [status |-> out.status, grade |-> <<>>, creditos_por_semestre |-> <<>>,
          objetivo |-> <<>>, creditos_por_tipo |-> <<>>]

\* OptimizerService._processar_resultados
ProcessarResultadosService(dd, ini, out) ==
    IF Sucesso(out.status)
    THEN LET known == {k \in out.x : k[1] \in DOMAIN dd.disciplinas}
             usados == {s \in ini..NumSemestres : GradeDoSemestre(known, s) # {}}
         IN [status |-> out.status,
             grade |-> [s \in usados |-> GradeDoSemestre(known, s)],
             creditos_por_semestre |->
                 [s \in ini..NumSemestres |-> CreditosNoSemestre(dd, known, s)],
             objetivo |-> out.objetivo,
             creditos_por_tipo |-> <<>>]
    ELSE [status |-> out.status, grade |-> <<>>, creditos_por_semestre |-> <<>>,
          objetivo |-> <<>>, creditos_por_tipo |-> <<>>]

\* the report key the decoder of resolver_grade derives from a label
ChaveDoTipo(tipo) ==
    IF Contem("Obrigatoria", tipo) THEN "Obrigatoria"
    ELSE IF Contem("Restrita", tipo) THEN "Escolha Restrita"
    ELSE IF Contem("Condicionada", tipo) THEN "Escolha Condicionada"
    ELSE IF Contem("Livre", tipo) THEN "Livre Escolha"
    ELSE "Outros"

ChavesDeTipo ==
    {"Obrigatoria", "Escolha Restrita", "Escolha Condicionada", "Livre Escolha", "Outros"}

\* creditos_por_tipo of resolver_grade: the completed courses found in
\* disciplinas, then one addition per assignment of the solution
CreditosPorTipoScip(dd, cursadas, x) ==
    [k \in ChavesDeTipo |->
        LET feitas == {d \in cursadas \cap DOMAIN dd.disciplinas :
                          ChaveDoTipo(dd.disciplinas[d].tipo) = k}
            postas == {j \in x : ChaveDoTipo(dd.disciplinas[j[1]].tipo) = k}
        IN SumOver(feitas, [d \in feitas |-> dd.disciplinas[d].creditos])
           + SumOver(postas, [j \in postas |-> dd.disciplinas[j[1]].creditos])]

\* section 7 of resolver_grade decoding whatever the status is
ProcessarResultadosScipSemTeste(dd, cursadas, out) ==
    [status |-> out.status,
     grade |-> [s \in 1..NumSemestres |-> GradeDoSemestre(out.x, s)],
     creditos_por_semestre |->
         [s \in 1..NumSemestres |-> CreditosNoSemestre(dd, out.x, s)],
     objetivo |-> <<NumSemestres>>,
     creditos_por_tipo |-> CreditosPorTipoScip(dd, cursadas, out.x)]

\* section 7 of resolver_grade; its None values are the empty function here
ProcessarResultadosScip(dd, cursadas, out) ==
    IF Sucesso(out.status)
    THEN [status |-> out.status,
          grade |-> [s \in 1..NumSemestres |-> GradeDoSemestre(out.x, s)],
          creditos_por_semestre |->
              [s \in 1..NumSemestres |-> CreditosNoSemestre(dd, out.x, s)],
          objetivo |-> out.objetivo,
          creditos_por_tipo |-> CreditosPorTipoScip(dd, cursadas, out.x)]
    ELSE [status |-> out.status, grade |-> <<>>, creditos_por_semestre |-> <<>>,
          objetivo |-> <<>>, creditos_por_tipo |-> <<>>]

\* the feasible assignments of the model OptimizerService.resolver builds
FeasibleSetService(dd, info, concl, ini, minimos, cap) ==
    LET keys == AlocacaoService(dd, concl, ini)
    IN {x \in SUBSET keys : FeasibleService(dd, info, concl, ini, minimos, cap, keys, x)}

\* the feasible assignments of the model resolver_grade builds
FeasibleSetScip(dd, cursadas, minimos, cap) ==
    LET keys == AlocacaoScip(dd, cursadas)
    IN {x \in SUBSET keys : FeasibleScip(dd, cursadas, minimos, cap, keys, x)}

\* OptimizerService._resolver on the model resolver() built
SolveService(dd, info, concl, ini, minimos, cap) ==
    LET keys == AlocacaoService(dd, concl, ini)
        F == FeasibleSetService(dd, info, concl, ini, minimos, cap)
        objMin == [x \in F |-> ObjetivoMinimoService(dd, concl, ini, keys, x)]
    IN SolverOutcomes(F, objMin)

\* solver.Solve() on the model resolver_grade built
SolveScip(dd, cursadas, minimos, cap) ==
    LET F == FeasibleSetScip(dd, cursadas, minimos, cap)
        objMin == [x \in F |-> ObjetivoMinimoScip(dd, cursadas, x)]
    IN SolverOutcomes(F, objMin)

\* OptimizerService.resolver: the results it may return
ResolverService(dd, info, concl, ini, minimos, cap) ==
    {ProcessarResultadosService(dd, ini, out) :
        out \in SolveService(dd, info, concl, ini, minimos, cap)}

\* resolver_grade: the results it may return
ResolverGrade(dd, cursadas, minimos, cap) ==
    {ProcessarResultadosScip(dd, cursadas, out) : out \in SolveScip(dd, cursadas, minimos, cap)}

----------------------------------------------------------------------------
(* The callers: the Streamlit page (app.py, ui/components.py) and the HTTP   *)
(* optimize operation (backend/main.py)                                      *)

\* the integer pywraplp uses for a solver status; -1 is what resolver_grade
\* returns when no solver could be created
StatusCode(status) ==
    CASE status = "OPTIMAL" -> 0
      [] status = "FEASIBLE" -> 1
      [] status = "INFEASIBLE" -> 2
      [] status = "NOT_SOLVED" -> 6
      [] OTHER -> -1

\* str(status)
StrStatus(status) == ToString(StatusCode(status))

\* GradeResultado.infactivel
Infactivel(status) == status = "INFEASIBLE"

MsgSolucao == "Solucao encontrada!"
MsgInfactivel == "Nenhuma solucao encontrada: O modelo e infactivel."
MsgSemSolucao == "Nenhuma solucao encontrada (status)"
MsgSemDisciplinas == "Nenhuma disciplina disponivel para otimizacao."
MsgErro == "Erro durante otimizacao"
RotuloMinimo == "Numero Minimo de Semestres Restantes"

\* a response with nothing in it
RespostaVazia ==
    [canal |-> "", codigo |-> 0, status |-> "", solution_status |-> "", mensagem |-> "",
     rotulo |-> "", semestres |-> <<>>, schedule |-> <<>>, credits_summary |-> <<>>,
     lista |-> <<>>, resultados |-> <<>>, erro |-> ""]

\* ui/components.py renderizar_resultados: the page shown for a GradeResultado
RenderizarResultados(res, ini) ==
    IF Sucesso(res.status)
    THEN [RespostaVazia EXCEPT
            !.canal = "ui", !.mensagem = MsgSolucao, !.rotulo = RotuloMinimo,
            !.semestres = <<res.objetivo[1] - ini + 1>>,
            !.schedule = res.grade]
    ELSE IF Infactivel(res.status)
    THEN [RespostaVazia EXCEPT !.canal = "ui", !.mensagem = MsgInfactivel]
    ELSE [RespostaVazia EXCEPT
            !.canal = "ui", !.mensagem = MsgSemSolucao,
            !.solution_status = StrStatus(res.status)]

\* app.py main storing what processar_otimizacao returned: a GradeResultado
\* is stored with the starting term of the click, None (the empty result) is not
Armazenar(ss, res, ini) ==
    IF res # NoResult
    THEN [k \in DOMAIN ss \cup {"ultimo_resultado", "semestre_inicio"} |->
             IF k = "ultimo_resultado" THEN res
             ELSE IF k = "semestre_inicio" THEN ini
             ELSE ss[k]]
    ELSE ss

\* the results section of app.py main: rendered when session_state has a result
SecaoResultados(ss) ==
    IF "ultimo_resultado" \in DOMAIN ss
    THEN <<RenderizarResultados(ss["ultimo_resultado"], ss["semestre_inicio"])>>
    ELSE <<>>

\* app.py processar_otimizacao returning None after st.error, then main
\* rendering the results section from session_state
PaginaDeErro(msg, exc, ss) ==
    [RespostaVazia EXCEPT !.canal = "ui", !.mensagem = msg, !.erro = exc,
                          !.resultados = SecaoResultados(ss)]

\* a return that reports the missing solver as an infeasible model
RetornoSemSolverInviavel ==
    [status |-> "INFEASIBLE", grade |-> <<>>, creditos_por_semestre |-> <<>>,
     objetivo |-> <<>>, creditos_por_tipo |-> <<>>, valores |-> 5]

\* what resolver_grade returns when CreateSolver gives no solver: four values,
\* the status -1
RetornoSemSolver ==
    [status |-> "-1", grade |-> <<>>, creditos_por_semestre |-> <<>>, objetivo |-> <<>>,
     creditos_por_tipo |-> <<>>, valores |-> 4]

\* a return of five values of resolver_grade
Retorno(res) ==
    [status |-> res.status, grade |-> res.grade,
     creditos_por_semestre |-> res.creditos_por_semestre, objetivo |-> res.objetivo,
     creditos_por_tipo |-> res.creditos_por_tipo, valores |-> 5]

\* a resolver_grade that drops the completed courses from the dictionary it
\* is given
DadosAposResolverGradeFiltrando(dd, cursadas) ==
    [dd EXCEPT !.disciplinas =
        [d \in DOMAIN dd.disciplinas \ cursadas |-> dd.disciplinas[d]]]

\* the dictionary given to resolver_grade, after the call: the function binds
\* local names to its entries and reads them; every list it builds is new
DadosAposResolverGrade(dd, cursadas) == dd

\* the list given to _filtrar_disciplinas_concluidas, after the call: each kept
\* record is copied before its prerequisite list is replaced
DisciplinasAposFiltrar(data, concl) == data

\* backend/main.py get_disciplinas
GetDisciplinas(dd) ==
    [RespostaVazia EXCEPT
        !.canal = "http", !.codigo = 200,
        !.lista = [d \in DOMAIN dd.disciplinas |->
                      [tipo |-> dd.disciplinas[d].tipo,
                       creditos |-> dd.disciplinas[d].creditos]]]

\* backend/main.py optimize_schedule from the call of resolver_grade on: the
\* five-name unpacking, then the response
OptimizeSchedule(ret) ==
    IF ret.valores # 5
    THEN [RespostaVazia EXCEPT !.canal = "http", !.codigo = 500, !.erro = "ValueError"]
    ELSE IF Sucesso(ret.status)
    THEN [RespostaVazia EXCEPT
            !.canal = "http", !.codigo = 200, !.status = "success",
            !.solution_status = IF ret.status = "OPTIMAL" THEN "OPTIMAL" ELSE "FEASIBLE",
            !.semestres = ret.objetivo,
            !.schedule = ret.grade,
            !.credits_summary = ret.creditos_por_tipo]
    ELSE [RespostaVazia EXCEPT
            !.canal = "http", !.codigo = 200, !.status = "error",
            !.solution_status =
                IF ret.status = "INFEASIBLE" THEN "INFEASIBLE" ELSE StrStatus(ret.status),
            !.mensagem = "No solution found."]

----------------------------------------------------------------------------
(* Inputs *)

CourseIds == {"EEWU00", "D1", "D2"}

\* an id no course record carries
UnknownId == "ZZ99"

Curso(c, t, p) == [creditos |-> c, tipo |-> t, prerequisitos |-> p]

Oferta(d, t, h, p) == [disciplina_id |-> d, turma_id |-> t, horario |-> h, periodo |-> p]

Minimos(r, c, l) == [restrita |-> r, condicionada |-> c, livre |-> l]

\* prerequisite lists: none, D1 before D2, the chain D1, D2, EEWU00, and a
\* prerequisite that is no course of the catalog
Prerequisitos ==
    {[d \in CourseIds |-> {}],
     [d \in CourseIds |-> IF d = "D2" THEN {"D1"} ELSE {}],
     [d \in CourseIds |-> IF d = "D2" THEN {"D1"} ELSE IF d = "EEWU00" THEN {"D2"} ELSE {}],
     [d \in CourseIds |-> IF d = "D1" THEN {UnknownId} ELSE {}]}

TiposDe(d) ==
    CASE d = "D1" -> {TipoPeriodo, TipoRestrita, TipoCondicionada}
      [] d = "D2" -> {TipoPeriodo, TipoLivre}
      [] OTHER -> {TipoPeriodo, TipoEstagio}

CreditosDe(d) == IF d = "D2" THEN 8 ELSE 4

Catalogos ==
    {[d \in CourseIds |-> Curso(CreditosDe(d), tp[d], pr[d])] :
        tp \in {f \in [CourseIds -> {TipoPeriodo, TipoRestrita, TipoCondicionada,
                                      TipoLivre, TipoEstagio}] :
                   \A d \in CourseIds : f[d] \in TiposDe(d)},
        pr \in Prerequisitos}

\* offering tables in which every offered course has one section of its own
OfertaPropria(d) ==
    CASE d = "D1" -> Oferta("D1", "T1", {"SEG-08-10"}, "")
      [] d = "D2" -> Oferta("D2", "T2", {"TER-08-10"}, "")
      [] OTHER -> Oferta("EEWU00", "T3", {}, "")

RECURSIVE SeqOf(_)
\* some sequence listing the finite set S
SeqOf(S) ==
    IF S = {} THEN <<>>
    ELSE LET x == CHOOSE y \in S : TRUE IN <<x>> \o SeqOf(S \ {x})

TabelasProprias ==
    {SeqOf({OfertaPropria(d) : d \in ds}) : ds \in SUBSET CourseIds}

\* offering records of two courses whose sections may share ids, time-slot
\* tokens and carry a parity spec
OfertasLivres ==
    {Oferta(d, t, h, p) : d \in {"D1", "D2"}, t \in {"T1", "T2"},
                          h \in {{"SEG-08-10"}, {"TER-08-10"}}, p \in {"", "1", "2"}}

\* a course lists each of its sections once
SecoesDistintas(tab) ==
    \A i, j \in DOMAIN tab :
        (tab[i].disciplina_id = tab[j].disciplina_id /\ tab[i].turma_id = tab[j].turma_id)
            => i = j

TabelasLivres ==
    UNION {{tab \in [1..n -> OfertasLivres] : SecoesDistintas(tab)} : n \in 1..MaxOfertas}

\* D1 required, D2 a free elective, EEWU00 never offered
CatalogosOfertas ==
    {[d \in CourseIds |->
        Curso(4, IF d = "D2" THEN TipoLivre ELSE IF d = "D1" THEN TipoPeriodo ELSE TipoEstagio,
              {})]}

TypeOK ==
    /\ builder \in {"service", "scip"}
    /\ pc \in {"init", "loaded", "done"}
    /\ semestre_inicio \in 1..NumSemestres

InitWith(catalogos, tabelas, conclSets, inicios, minimosSet, caps) ==
    /\ builder \in {"service", "scip"}
    /\ disciplinas_data \in catalogos
    /\ ofertas_data \in tabelas
    /\ concluidas \in conclSets
    /\ semestre_inicio \in inicios
    /\ builder = "scip" => semestre_inicio = 1
    /\ creditos_minimos \in minimosSet
    /\ creditos_max \in caps
    /\ dados = <<>>
    /\ resultado = NoResult
    /\ solver = "none"
    /\ solve_status = "none"
    /\ resposta = RespostaVazia
    /\ session_state = <<>>
    /\ pc = "init"

\* the sets of completed ids a request carries
TakenCourses == {{}, {"D1"}, {UnknownId}}

\* the starting terms the number input of the page is given
InicioNumbers == {1, 2}

Init ==
    InitWith(Catalogos, TabelasProprias,
             TakenCourses,
             InicioNumbers,
             {Minimos(0, 0, 0), Minimos(4, 4, 8)},
             {32})

----------------------------------------------------------------------------
(* Operations *)

\* app.py processar_otimizacao loads with the completed ids of the request;
\* backend/main.py loads once, with none
Carregar ==
    /\ pc = "init"
    /\ dados' = CarregarDados(disciplinas_data, ofertas_data,
                              IF builder = "service" THEN concluidas ELSE {})
    /\ disciplinas_data' =
          DisciplinasAposFiltrar(disciplinas_data,
                                 IF builder = "service" THEN concluidas ELSE {})
    /\ pc' = "loaded"
    /\ UNCHANGED <<session_state, builder, ofertas_data, concluidas, semestre_inicio,
                   creditos_minimos, creditos_max, resultado, solver, solve_status,
                   resposta>>

\* app.py processar_otimizacao: no course left after loading, no optimization
SemDisciplinas ==
    /\ pc = "loaded"
    /\ builder = "service"
    /\ DOMAIN dados.disciplinas = {}
    /\ resposta' = PaginaDeErro(MsgSemDisciplinas, "", Armazenar(session_state, NoResult,
                                                             semestre_inicio))
    /\ pc' = "done"
    /\ UNCHANGED <<session_state, builder, disciplinas_data, ofertas_data, concluidas, semestre_inicio,
                   creditos_minimos, creditos_max, dados, resultado, solver, solve_status>>

\* app.py processar_otimizacao: OptimizerService(...) finds no SCIP backend and
\* raises RuntimeError, which processar_otimizacao reports, returning None
SolverIndisponivelService ==
    /\ pc = "loaded"
    /\ builder = "service"
    /\ DOMAIN dados.disciplinas # {}
    /\ solver' = "unavailable"
    /\ resposta' = PaginaDeErro(MsgErro, "RuntimeError",
                              Armazenar(session_state, NoResult, semestre_inicio))
    /\ pc' = "done"
    /\ UNCHANGED <<session_state, builder, disciplinas_data, ofertas_data, concluidas, semestre_inicio,
                   creditos_minimos, creditos_max, dados, resultado, solve_status>>

\* backend/main.py optimize_schedule: resolver_grade finds no SCIP backend
SolverIndisponivelScip ==
    /\ pc = "loaded"
    /\ builder = "scip"
    /\ solver' = "unavailable"
    /\ resultado' = [f \in DOMAIN NoResult |-> RetornoSemSolver[f]]
    /\ resposta' = OptimizeSchedule(RetornoSemSolver)
    /\ pc' = "done"
    /\ UNCHANGED <<session_state, builder, disciplinas_data, ofertas_data, concluidas, semestre_inicio,
                   creditos_minimos, creditos_max, dados, solve_status>>

\* backend/main.py get_disciplinas: a GET /disciplinas while the server is idle
ListarDisciplinas ==
    /\ pc = "loaded"
    /\ builder = "scip"
    /\ resposta # GetDisciplinas(dados)
    /\ resposta' = GetDisciplinas(dados)
    /\ UNCHANGED <<session_state, builder, disciplinas_data, ofertas_data, concluidas, semestre_inicio,
                   creditos_minimos, creditos_max, dados, resultado, solver, solve_status,
                   pc>>

\* backend/main.py: the response is sent and the next POST /optimize arrives
\* with its own taken_courses; grade, status and the response are locals of a
\* request, dados_globais is the module's global
NovaRequisicao ==
    /\ pc = "done"
    /\ builder = "scip"
    /\ concluidas' \in TakenCourses
    /\ resultado' = NoResult
    /\ solver' = "none"
    /\ solve_status' = "none"
    /\ resposta' = RespostaVazia
    /\ pc' = "loaded"
    /\ UNCHANGED <<session_state, builder, disciplinas_data, ofertas_data, semestre_inicio,
                   creditos_minimos, creditos_max, dados>>

\* app.py processar_otimizacao: OptimizerService(...).resolver(), then main()
\* stores the result and renderizar_resultados shows it
OtimizarService ==
    /\ pc = "loaded"
    /\ builder = "service"
    /\ DOMAIN dados.disciplinas # {}
    /\ \E out \in SolveService(dados, disciplinas_data, concluidas, semestre_inicio,
                                creditos_minimos, creditos_max) :
          /\ solve_status' = out.status
          /\ resultado' = ProcessarResultadosService(dados, semestre_inicio, out)
    /\ solver' = "SCIP"
    /\ session_state' = Armazenar(session_state, resultado', semestre_inicio)
    /\ resposta' = SecaoResultados(session_state')[1]
    /\ pc' = "done"
    /\ UNCHANGED <<builder, disciplinas_data, ofertas_data, concluidas, semestre_inicio,
                   creditos_minimos, creditos_max, dados>>

\* app.py main: the user changes the selection or the starting term and
\* clicks the button again; the script runs anew with the same session_state
NovoClique ==
    /\ pc = "done"
    /\ builder = "service"
    /\ concluidas' \in TakenCourses
    /\ semestre_inicio' \in InicioNumbers
    /\ dados' = <<>>
    /\ resultado' = NoResult
    /\ solver' = "none"
    /\ solve_status' = "none"
    /\ resposta' = RespostaVazia
    /\ pc' = "init"
    /\ UNCHANGED <<session_state, builder, disciplinas_data, ofertas_data,
                   creditos_minimos, creditos_max>>

\* backend/main.py optimize_schedule: resolver_grade(dados_globais, ...)
OtimizarScip ==
    /\ pc = "loaded"
    /\ builder = "scip"
    /\ \E out \in SolveScip(dados, concluidas, creditos_minimos, creditos_max) :
          /\ solve_status' = out.status
          /\ resultado' = ProcessarResultadosScip(dados, concluidas, out)
    /\ solver' = "SCIP"
    /\ resposta' = OptimizeSchedule(Retorno(resultado'))
    /\ dados' = DadosAposResolverGrade(dados, concluidas)
    /\ pc' = "done"
    /\ UNCHANGED <<session_state, builder, disciplinas_data, ofertas_data, concluidas, semestre_inicio,
                   creditos_minimos, creditos_max>>

Next ==
    \/ Carregar
    \/ SemDisciplinas
    \/ SolverIndisponivelService
    \/ SolverIndisponivelScip
    \/ OtimizarService
    \/ OtimizarScip

Spec == Init /\ [][Next]_vars

InitOfertas ==
    InitWith(CatalogosOfertas, TabelasLivres, {{}, {"D1"}}, {1}, {Minimos(0, 0, 0)}, {32})

SpecOfertas == InitOfertas /\ [][Next]_vars

\* the catalogs without prerequisites
CatalogosSemPrerequisitos ==
    {c \in Catalogos : \A d \in CourseIds : c[d].prerequisitos = {}}

\* requests whose per-term credit cap is below the credits of the catalog
InitCreditos ==
    InitWith(CatalogosSemPrerequisitos, TabelasProprias, {{}, {"D1"}}, {1, 2},
             {Minimos(0, 0, 0)}, {4, 8, 12})

SpecCreditos == InitCreditos /\ [][Next]_vars

\* the server of backend/main.py answering one request after another
NextServidor ==
    \/ Next
    \/ ListarDisciplinas
    \/ NovaRequisicao

SpecServidor == Init /\ [][NextServidor]_vars

\* a Streamlit session of app.py on a catalog without prerequisites
InitSessao ==
    /\ InitWith(CatalogosSemPrerequisitos, TabelasProprias, TakenCourses, InicioNumbers,
                {Minimos(0, 0, 0)}, {32})
    /\ builder = "service"

\* the clicks of one session, one after another
NextSessao ==
    \/ Carregar
    \/ SemDisciplinas
    \/ SolverIndisponivelService
    \/ OtimizarService
    \/ NovoClique

SpecSessao == InitSessao /\ [][NextSessao]_vars

----------------------------------------------------------------------------
(* Vocabulary of the properties *)

\* the assignments <<course, term, section>> of the returned schedule
Alocadas ==
    UNION {{<<e[1], s, e[2]>> : e \in resultado.grade[s]} : s \in DOMAIN resultado.grade}

Terminou == pc = "done" /\ resultado.status # "none"

TemPlano == pc = "done" /\ Sucesso(resultado.status)

\* category of a course of the catalog file
CategoriaCatalogo == Categorizar(disciplinas_data)

PrimeiroSemestre == IF builder = "service" THEN semestre_inicio ELSE 1

\* the offering records of course d
OfertasDe(d) == {i \in DOMAIN ofertas_data : ofertas_data[i].disciplina_id = d}

\* the offering record of section t of course d
OfertasDaTurma(d, t) == {i \in OfertasDe(d) : ofertas_data[i].turma_id = t}

\* d has a section offered in some term of the planning range
TemVaga(d) ==
    \E i \in OfertasDe(d) : \E s \in PrimeiroSemestre..NumSemestres :
        PeriodoAllows(ofertas_data[i].periodo, s)

VezesAlocada(d) == Cardinality({k \in Alocadas : k[1] = d})

\* the alocacao keys of the model built from the loaded data
ChavesDoModelo ==
    IF builder = "service" THEN AlocacaoService(dados, concluidas, semestre_inicio)
    ELSE AlocacaoScip(dados, concluidas)

\* the courses the built model has a cursada expression for
NoModelo(d) ==
    IF builder = "service" THEN d \in TodasACursar(dados, concluidas)
    ELSE d \in DOMAIN dados.disciplinas

----------------------------------------------------------------------------
(* Properties *)

\* C1: in every OPTIMAL or FEASIBLE result of either builder, every required
\* course that is not completed and has a section offered in some term of the
\* planning range is assigned exactly once (one term, one section).
C1_ObrigatoriaExatamenteUmaVez ==
    TemPlano =>
        \A d \in CategoriaCatalogo.obrigatorias :
            (d \notin concluidas /\ TemVaga(d)) => VezesAlocada(d) = 1

\* a plan of each builder in which a required course with two sections is
\* assigned to one of them
C1_Witness ==
    /\ TemPlano
    /\ \E d \in CategoriaCatalogo.obrigatorias :
          /\ d \notin concluidas
          /\ Cardinality(OfertasDe(d)) >= 2
          /\ VezesAlocada(d) = 1

\* C2: a completed course never appears in the schedule of any result and no
\* assignment variable is created for it.
C2_ConcluidaNuncaAlocada ==
    /\ pc \in {"loaded", "done"} => \A k \in ChavesDoModelo : k[1] \notin concluidas
    /\ pc = "done" => \A k \in Alocadas : k[1] \notin concluidas

\* a plan for a student who completed an offered course that another course,
\* which the plan schedules, lists as prerequisite
C2_Witness ==
    /\ TemPlano
    /\ \E c \in concluidas \cap DOMAIN disciplinas_data :
          /\ OfertasDe(c) # {}
          /\ \E k \in Alocadas : c \in disciplinas_data[k[1]].prerequisitos

\* C3: in every OPTIMAL or FEASIBLE result, for every pair (course,
\* prerequisite) both in the model with the prerequisite not completed, a
\* scheduled course has its prerequisite scheduled, in strictly earlier terms.
C3_PrerequisitoAntes ==
    TemPlano =>
        \A k \in Alocadas : \A p \in disciplinas_data[k[1]].prerequisitos :
            (NoModelo(k[1]) /\ NoModelo(p) /\ p \notin concluidas) =>
                /\ \E j \in Alocadas : j[1] = p
                /\ \A j \in Alocadas : j[1] = p => j[2] < k[2]

\* a plan that schedules a course and, earlier, its not-completed prerequisite
C3_Witness ==
    /\ TemPlano
    /\ \E k, j \in Alocadas :
          /\ j[1] \in disciplinas_data[k[1]].prerequisitos
          /\ j[1] \notin concluidas
          /\ j[2] < k[2]

\* remaining category minimums of the request
Restantes == CreditosMinimosRestantes(disciplinas_data, concluidas, creditos_minimos)

\* x assigns every required course to take once and no elective
SoObrigatorias(x) ==
    /\ \A d \in ObrigatoriasACursar(dados, concluidas) : Cursada(x, d) = 1
    /\ \A d \in OptativasACursar(dados, concluidas) : Cursada(x, d) = 0

\* x respects prerequisite order, time slots and the credit cap
RegrasDoPlano(x) ==
    /\ \A p \in ParesPrereqService(dados, concluidas) :
          Cursada(x, p[1]) = 1 =>
              Cursada(x, p[2]) = 1 /\ SomaSemestres(x, p[2]) < SomaSemestres(x, p[1])
    /\ RestricaoConflitosService(dados, semestre_inicio, ChavesDoModelo, x)
    /\ RestricaoLimiteCreditosService(dados, semestre_inicio, x, creditos_max)

\* C4: in the model OptimizerService builds an elective may be left untaken:
\* when every remaining category minimum is 0, a schedule that assigns every
\* required course, no elective, and respects the other rules is feasible.
C4_EletivaPodeFicarSemCursar ==
    (builder = "service" /\ pc = "loaded" /\ \A cat \in DOMAIN Restantes : Restantes[cat] = 0)
        => \A x \in SUBSET ChavesDoModelo :
              (SoObrigatorias(x) /\ RegrasDoPlano(x)) =>
                  FeasibleService(dados, disciplinas_data, concluidas, semestre_inicio,
                                  creditos_minimos, creditos_max, ChavesDoModelo, x)

\* C5: each assigned section is placed in a term whose parity the section's
\* own offering record allows.
C5_ParidadeDaTurma ==
    pc = "done" =>
        \A k \in Alocadas : \A i \in OfertasDaTurma(k[1], k[3]) :
            PeriodoAllows(ofertas_data[i].periodo, k[2])

\* C6: in the loader -> OptimizerService pipeline a required, not completed
\* course without any offered section never leaves a plan returned without it.
C6_ObrigatoriaSemOfertaInviavel ==
    (builder = "service" /\ pc = "done"
        /\ \E d \in CategoriaCatalogo.obrigatorias : d \notin concluidas /\ OfertasDe(d) = {})
        => ~Sucesso(resultado.status)

\* the courses of the catalog file in an elective category
DaCategoria(cat) ==
    CASE cat = "restrita" -> CategoriaCatalogo.restritas
      [] cat = "condicionada" -> CategoriaCatalogo.condicionadas
      [] OTHER -> CategoriaCatalogo.livres

CreditosAlocados(cat) ==
    LET ds == {d \in DaCategoria(cat) : VezesAlocada(d) > 0}
    IN SumOver(ds, [d \in ds |-> disciplinas_data[d].creditos])

CreditosConcluidos(cat) ==
    LET ds == DaCategoria(cat) \cap concluidas
    IN SumOver(ds, [d \in ds |-> disciplinas_data[d].creditos])

\* C7: in every OPTIMAL or FEASIBLE result, per elective category, the credits
\* of the scheduled courses are at least max(0, minimum - completed credits).
C7_CreditosMinimosPorCategoria ==
    TemPlano =>
        \A cat \in {"restrita", "condicionada", "livre"} :
            CreditosAlocados(cat) >= Max2(0, creditos_minimos[cat] - CreditosConcluidos(cat))

\* C8: Scenario C: a remaining free-elective minimum of 8 credits and no free
\* elective with an offered section never yields a schedule.
C8_LivreSemOfertaInviavel ==
    (builder = "service" /\ pc = "done" /\ Restantes["livre"] = 8
        /\ \A d \in CategoriaCatalogo.livres : OfertasDe(d) = {})
        => ~Sucesso(resultado.status)

\* the other courses the plan places in terms strictly before s
OutrasAntes(s) ==
    {d \in DOMAIN dados.disciplinas \ {IdEstagio} :
        \E j \in Alocadas : j[1] = d /\ j[2] < s}

\* ceil(total course count / 2)
MetadeDoCurso == (Cardinality(DOMAIN dados.disciplinas) + 1) \div 2

C10_SemConflitoDeHorario ==
    pc = "done" =>
        \A s \in 1..NumSemestres :
            \A h \in UNION {ofertas_data[i].horario : i \in DOMAIN ofertas_data} :
                Cardinality({k \in Alocadas :
                                /\ k[2] = s
                                /\ \E i \in OfertasDaTurma(k[1], k[3]) :
                                      h \in ofertas_data[i].horario}) <= 1

\* credits of the courses the returned schedule lists in term s
CreditosDoSemestre(s) ==
    LET es == resultado.grade[s]
    IN SumOver(es, [e \in es |-> disciplinas_data[e[1]].creditos])

\* C11: in every result, for every term, the credits of the courses assigned
\* to the term sum to at most the per-term credit cap.
C11_LimiteDeCreditos ==
    pc = "done" =>
        \A s \in DOMAIN resultado.grade : CreditosDoSemestre(s) <= creditos_max

\* a plan of each builder with a term of two courses filled to the cap and a
\* course moved to another term
C11_Witness ==
    /\ TemPlano
    /\ \E s, r \in DOMAIN resultado.grade :
          /\ s # r
          /\ Cardinality(resultado.grade[s]) = 2
          /\ CreditosDoSemestre(s) = creditos_max
          /\ resultado.grade[r] # {}

\* the elective courses of the catalog file
Eletivas ==
    CategoriaCatalogo.restritas \cup CategoriaCatalogo.condicionadas
        \cup CategoriaCatalogo.livres

\* C12: in every result, every elective course that is not completed is
\* assigned at most once over all terms and sections.
C12_EletivaNoMaximoUmaVez ==
    pc = "done" =>
        \A d \in Eletivas : d \notin concluidas => VezesAlocada(d) <= 1

\* a plan that takes, once, an elective offered in two sections
C12_Witness ==
    /\ TemPlano
    /\ \E d \in Eletivas :
          /\ d \notin concluidas
          /\ Cardinality(OfertasDe(d)) >= 2
          /\ VezesAlocada(d) = 1

\* the last term a non-empty set of assignments uses
UltimoSemestre(x) == MaxOf({k[2] : k \in x})

\* the assignments that satisfy every constraint of the model built
PlanosViaveis ==
    IF builder = "service"
    THEN FeasibleSetService(dados, disciplinas_data, concluidas, semestre_inicio,
                            creditos_minimos, creditos_max)
    ELSE FeasibleSetScip(dados, concluidas, creditos_minimos, creditos_max)

\* C13: in an OPTIMAL result that schedules at least one course the objective
\* value is the largest term with an assignment, and no schedule satisfying
\* all constraints of the model finishes in a smaller last term.
C13_ObjetivoUltimoSemestre ==
    (TemPlano /\ resultado.status = "OPTIMAL" /\ Alocadas # {}) =>
        /\ resultado.objetivo = <<UltimoSemestre(Alocadas)>>
        /\ \A x \in PlanosViaveis :
              x # {} => UltimoSemestre(x) >= UltimoSemestre(Alocadas)

\* an OPTIMAL plan that leaves a course of the model untaken, ends before the
\* horizon, while another feasible schedule ends later
C13_Witness ==
    /\ TemPlano /\ resultado.status = "OPTIMAL" /\ Alocadas # {}
    /\ UltimoSemestre(Alocadas) < NumSemestres
    /\ \E k \in ChavesDoModelo : VezesAlocada(k[1]) = 0
    /\ \E x \in PlanosViaveis : x # {} /\ UltimoSemestre(x) > UltimoSemestre(Alocadas)

\* C14: a request whose completed ids include an id that is no course of the
\* catalog is rejected before any model is built: no solver runs and no
\* schedule is returned.
C14_IdsInvalidosRejeitados ==
    (pc = "done" /\ ~(concluidas \subseteq DOMAIN disciplinas_data)) =>
        /\ solve_status = "none"
        /\ Alocadas = {}
        /\ DOMAIN resposta.schedule = {}

\* the result carries no schedule, no credit totals and no objective value
ResultadoVazio ==
    /\ DOMAIN resultado.grade = {}
    /\ DOMAIN resultado.creditos_por_semestre = {}
    /\ resultado.objetivo = <<>>

\* C15: the decoder carries the solver status unchanged; when the status is
\* neither OPTIMAL nor FEASIBLE it returns no schedule, no per-term credit
\* totals and no objective value, so a non-empty schedule or an objective
\* value come only with OPTIMAL or FEASIBLE.
C15_DecodificadorSemSolucao ==
    (pc = "done" /\ solve_status # "none") =>
        /\ resultado.status = solve_status
        /\ ~Sucesso(solve_status) => ResultadoVazio
        /\ (Alocadas # {} \/ resultado.objetivo # <<>>) => Sucesso(solve_status)

\* the solver proved a model that has assignment variables infeasible and the
\* decoder returned the empty result with that status
C15_Witness ==
    /\ pc = "done" /\ solve_status = "INFEASIBLE"
    /\ ChavesDoModelo # {}
    /\ resultado.status = "INFEASIBLE" /\ ResultadoVazio

\* C16: in the HTTP optimize response, whenever the solver returned a status
\* other than OPTIMAL and FEASIBLE, solution_status is "INFEASIBLE" or
\* "UNKNOWN".
C16_StatusHttpSemSolucao ==
    (builder = "scip" /\ pc = "done" /\ solve_status # "none" /\ ~Sucesso(solve_status)) =>
        resposta.solution_status \in {"INFEASIBLE", "UNKNOWN"}

\* C17: a result whose solver status is FEASIBLE is never presented as
\* optimal: what the caller is shown names the status FEASIBLE and does not
\* label the final term as the minimum.
C17_FeasibleNaoOtimo ==
    (pc = "done" /\ solve_status = "FEASIBLE") =>
        /\ resposta.solution_status = "FEASIBLE"
        /\ resposta.rotulo # RotuloMinimo

\* C18: when the solver backend cannot be created the optimize operation
\* ends without a schedule and without running a solve, and what the caller
\* gets is not the answer of an infeasible model: OptimizerService raised
\* RuntimeError, and the HTTP response does not carry solution_status
\* INFEASIBLE.
C18_SolverIndisponivel ==
    (pc = "done" /\ solver = "unavailable") =>
        /\ solve_status = "none"
        /\ Alocadas = {}
        /\ DOMAIN resposta.schedule = {}
        /\ resposta.solution_status # "INFEASIBLE"
        /\ resposta.mensagem # MsgInfactivel
        /\ builder = "service" => resposta.erro = "RuntimeError"

\* the HTTP optimize operation met a missing solver on a model that has
\* assignment variables
C18_Witness ==
    /\ pc = "done" /\ solver = "unavailable" /\ builder = "scip"
    /\ AlocacaoScip(dados, concluidas) # {}
    /\ resposta.canal = "http"

\* C19: the schedule the caller receives has no term with an empty course
\* list.
C19_SemSemestreVazio ==
    pc = "done" =>
        \A s \in DOMAIN resposta.schedule : resposta.schedule[s] # {}

\* C20: in the loader -> OptimizerService pipeline a course that lists a
\* catalog course as prerequisite is never scheduled when that prerequisite is
\* not completed and has no offered section.
C20_PrerequisitoSemOferta ==
    (builder = "service" /\ pc = "done") =>
        \A k \in Alocadas : \A p \in disciplinas_data[k[1]].prerequisitos :
            ~(p \in DOMAIN disciplinas_data /\ p \notin concluidas /\ OfertasDe(p) = {})

\* the courses of the loaded data in no category list (category Other)
SemCategoria ==
    {d \in DOMAIN dados.disciplinas : d \notin dados.obrigatorias_ids \cup OptativasIds(dados)}

\* the model of resolver_grade has been built from the loaded data
ModeloScip == builder = "scip" /\ pc = "loaded"

\* C21: in the model resolver_grade builds, every not-completed course has
\* taken in {0, 1} in every feasible solution, the courses of no category list
\* included.
C21_CursadaBinaria ==
    ModeloScip =>
        \A x \in FeasibleSetScip(dados, concluidas, creditos_minimos, creditos_max) :
            \A d \in ACursarScip(dados, concluidas) : Cursada(x, d) \in {0, 1}

\* a feasible solution takes a course of no category list that has assignment
\* variables in several terms
C21_Witness ==
    /\ ModeloScip
    /\ \E d \in SemCategoria \ concluidas :
          /\ Cardinality(KeysOf(AlocacaoScip(dados, concluidas), d)) >= 2
          /\ \E x \in FeasibleSetScip(dados, concluidas, creditos_minimos, creditos_max) :
                Cursada(x, d) = 1

\* the rules of a schedule x of the SCIP model stated without big-M: every
\* course at most once, coverage, category minimums, a taken course has each
\* catalog prerequisite completed or taken in an earlier term, no time-slot
\* conflict, the credit cap and the gating rule
RegrasScip(x) ==
    LET keys == AlocacaoScip(dados, concluidas)
    IN /\ \A d \in ACursarScip(dados, concluidas) : Cursada(x, d) <= 1
       /\ RestricaoObrigatoriasScip(dados, concluidas, x)
       /\ RestricaoOptativasScip(dados, concluidas, x)
       /\ RestricaoCreditosMinimosScip(dados, concluidas, creditos_minimos, x)
       /\ \A p \in ParesPrereqScip(dados, concluidas) :
             Cursada(x, p[1]) = 1 =>
                 \/ p[2] \in concluidas
                 \/ Cursada(x, p[2]) = 1 /\ SomaSemestres(x, p[2]) < SomaSemestres(x, p[1])
       /\ RestricaoConflitosScip(dados, keys, x)
       /\ RestricaoLimiteCreditosScip(dados, concluidas, x, creditos_max)
       /\ RestricaoEstagioScip(dados, concluidas, keys, x)

\* the ordering and objective constraints of course d hold for x
BigMFolgado(x, d) ==
    /\ \A p \in ParesPrereqScip(dados, concluidas) :
          p[1] = d =>
              SemestreScip(concluidas, x, d) - SemestreScip(concluidas, x, p[2])
                  >= 1 - MPrereqScip * (1 - Cursada(x, d))
    /\ 1 >= SemestreScip(concluidas, x, d) - MObjScip * (1 - Cursada(x, d))

\* C22: in the model resolver_grade builds, for a course with taken = 0 the
\* prerequisite-ordering and the objective constraint of that course hold
\* whatever the other variables are, and every schedule that satisfies the
\* coverage, prerequisite, conflict, credit and gating rules is feasible.
C22_BigMNaoRestringe ==
    ModeloScip =>
        \A x \in SUBSET AlocacaoScip(dados, concluidas) :
            /\ \A d \in ACursarScip(dados, concluidas) :
                  Cursada(x, d) = 0 => BigMFolgado(x, d)
            /\ RegrasScip(x) =>
                  FeasibleScip(dados, concluidas, creditos_minimos, creditos_max,
                               AlocacaoScip(dados, concluidas), x)

\* a schedule within the rules leaves untaken a course that has assignment
\* variables and a prerequisite taken in the last term of the horizon
C22_Witness ==
    /\ ModeloScip
    /\ \E x \in SUBSET AlocacaoScip(dados, concluidas) :
          /\ RegrasScip(x)
          /\ \E p \in ParesPrereqScip(dados, concluidas) :
                /\ Cursada(x, p[1]) = 0
                /\ KeysOf(AlocacaoScip(dados, concluidas), p[1]) # {}
                /\ Cursada(x, p[2]) = 1
                /\ SomaSemestres(x, p[2]) = NumSemestres

\* the data each path loads for the request of the state
DadosService == CarregarDados(disciplinas_data, ofertas_data, concluidas)

DadosScip == CarregarDados(disciplinas_data, ofertas_data, {})

\* the schedules the model of OptimizerService accepts for the request
AceitosService ==
    FeasibleSetService(DadosService, disciplinas_data, concluidas, semestre_inicio,
                       creditos_minimos, creditos_max)

\* the schedules the model of resolver_grade accepts for the request
AceitosScip == FeasibleSetScip(DadosScip, concluidas, creditos_minimos, creditos_max)

\* optimal objective values of the two models (defined when schedules exist)
OtimoService ==
    MinOf({ObjetivoMinimoService(DadosService, concluidas, semestre_inicio,
                                 AlocacaoService(DadosService, concluidas, semestre_inicio), x) :
              x \in AceitosService})

OtimoScip == MinOf({ObjetivoMinimoScip(DadosScip, concluidas, x) : x \in AceitosScip})

\* C23: for the same catalog, offerings, completed set, horizon, cap and
\* minimums, with starting term 1, the models of OptimizerService and of
\* resolver_grade accept the same schedules and have the same optimal
\* objective value.
C23_ConstrutoresEquivalentes ==
    (pc = "loaded" /\ semestre_inicio = 1 /\ DOMAIN DadosService.disciplinas # {}) =>
        /\ AceitosService = AceitosScip
        /\ AceitosService # {} => OtimoService = OtimoScip

\* C24: in every result of OptimizerService.resolver every scheduled course
\* is in a term from semestre_inicio to num_semestres_total, and so is the
\* objective value.
C24_SemestresNoIntervalo ==
    (builder = "service" /\ pc = "done") =>
        /\ \A k \in Alocadas : k[2] \in semestre_inicio..NumSemestres
        /\ resultado.objetivo # <<>> =>
              resultado.objetivo[1] \in semestre_inicio..NumSemestres

\* a plan for a student starting in a later term that uses that term and the
\* last one
C24_Witness ==
    /\ builder = "service" /\ TemPlano
    /\ semestre_inicio > 1
    /\ \E k, j \in Alocadas : k[2] = semestre_inicio /\ j[2] = NumSemestres

\* C25: in the model resolver_grade builds, a section whose offering record
\* has an absent or empty parity spec has an assignment variable in every term,
\* odd and even, whatever parity the other sections of its course carry.
C25_ParidadeAusenteTodosOsSemestres ==
    ModeloScip =>
        \A i \in DOMAIN ofertas_data :
            LET o == ofertas_data[i]
            IN (o.periodo = "" /\ o.disciplina_id \in ACursarScip(dados, concluidas)) =>
                  \A s \in 1..NumSemestres :
                      <<o.disciplina_id, s, o.turma_id>> \in AlocacaoScip(dados, concluidas)

\* the report key of the category the loader gives a course of the catalog file
ChaveDoCatalogo(d) ==
    IF d \in CategoriaCatalogo.obrigatorias THEN "Obrigatoria"
    ELSE IF d \in CategoriaCatalogo.restritas THEN "Escolha Restrita"
    ELSE IF d \in CategoriaCatalogo.condicionadas THEN "Escolha Condicionada"
    ELSE IF d \in CategoriaCatalogo.livres THEN "Livre Escolha"
    ELSE "Outros"

\* credits of the completed catalog courses and the scheduled courses of key k
CreditosDaChave(k) ==
    LET ds == {d \in DOMAIN disciplinas_data :
                  /\ d \in concluidas \/ VezesAlocada(d) > 0
                  /\ ChaveDoCatalogo(d) = k}
    IN SumOver(ds, [d \in ds |-> disciplinas_data[d].creditos])

\* C26: in a successful result of resolver_grade, creditos_por_tipo[k] is, for
\* each reported category k, the sum of the credits of the completed catalog
\* courses and the scheduled courses whose catalog category is k; the credits of
\* the courses of the required list are under the required category.
C26_CreditosPorCategoriaDoCatalogo ==
    (builder = "scip" /\ TemPlano) =>
        \A k \in DOMAIN resultado.creditos_por_tipo :
            resultado.creditos_por_tipo[k] = CreditosDaChave(k)

Cadeias ==
    {c \in UNION {[1..k -> CategoriaCatalogo.obrigatorias \ concluidas] :
                    k \in 1..Cardinality(CourseIds)} :
        \A i \in 1..(Len(c) - 1) : c[i] \in disciplinas_data[c[i + 1]].prerequisitos}

\* C28: when not-completed required courses form a prerequisite chain of k
\* courses, every plan returned has an objective of at least the starting term
\* + k - 1, and no plan is returned when the horizon holds fewer than k terms
\* from the starting term.
C28_CadeiaDePrerequisitos ==
    \A c \in Cadeias :
        /\ TemPlano => resultado.objetivo[1] >= PrimeiroSemestre + Len(c) - 1
        /\ (Terminou /\ solver = "SCIP" /\ NumSemestres - PrimeiroSemestre + 1 < Len(c))
              => ~Sucesso(resultado.status)

\* C29: in every result of resolver_grade, the gating course EEWU00 is in term
\* s only if the completed ids that are courses of the catalog plus the other
\* courses in terms strictly before s are at least ceil(total course count / 2):
\* a completed id that is no course of the catalog does not count.
C29_IdsDesconhecidosNaoContam ==
    (builder = "scip" /\ pc = "done") =>
        \A k \in Alocadas :
            k[1] = IdEstagio =>
                Cardinality(concluidas \cap DOMAIN disciplinas_data)
                    + Cardinality(OutrasAntes(k[2])) >= MetadeDoCurso

\* the courses of the schedule stored in session_state
AlocadasNaSessao ==
    LET g == session_state["ultimo_resultado"].grade
    IN UNION {{e[1] : e \in g[s]} : s \in DOMAIN g}

\* the stored result was computed for other inputs than those of this click:
\* for another starting term, or with a course planned that is completed now
EntradasDiferentes ==
    \/ session_state["semestre_inicio"] # semestre_inicio
    \/ AlocadasNaSessao \cap concluidas # {}

\* C30: after a click of the Streamlit app, the result the results section
\* shows (session_state 'ultimo_resultado' with its 'semestre_inicio') is the
\* outcome of that click; when the click failed (processar_otimizacao returned
\* None), no result computed for other inputs is shown.
C30_ResultadoDoUltimoClique ==
    (builder = "service" /\ pc = "done") =>
        IF resultado # NoResult
        THEN /\ session_state["ultimo_resultado"] = resultado
             /\ session_state["semestre_inicio"] = semestre_inicio
        ELSE ~("ultimo_resultado" \in DOMAIN session_state /\ EntradasDiferentes)


============================================================================
